---------------------------- MODULE Spec2Model ----------------------------
(***************************************************************************)
(* A model of new_cli_project_template: the configuration resolver         *)
(* (config.py), the input-source resolution and request orchestrator       *)
(* (ai_utils.py) and the six typer commands (__main__.py).                 *)
(*                                                                         *)
(* Conventions.                                                            *)
(*  - A Python Optional is a sequence of length <= 1: None is << >> and a  *)
(*    present value x is << x >>.                                          *)
(*  - Text that the code strips (prompt flag, file contents, standard      *)
(*    input) is a sequence of characters over Chars.                       *)
(*  - Temperatures are in tenths: 5 is 0.5, 20 is 2.0, 25 is 2.5.          *)
(*  - A console line is a sequence of strings: the fixed part of the       *)
(*    message followed by the values formatted into it.                    *)
(***************************************************************************)
EXTENDS Integers, Sequences, FiniteSets, TLC

VARIABLES
    cmd,            \* the command typer dispatched to
    argv,           \* the command line: each option is None (not given) or Some(value)
    opts,           \* the parameter values of the command function
    pc,             \* position inside the command
    fs,             \* files: ./config.toml, the home dotfile, the input file, cwd
    environ,        \* os.environ, restricted to the credential variables
    stdin,          \* the text standard input delivers when read to the end
    file_config,    \* Optional ConfigFile: result of load_config_file()
    config,         \* Optional AppConfig: result of merge_config()
    prompt_text,    \* Optional text: result of read_prompt_from_input()
    reads,          \* input sources read so far, in order
    console,        \* lines printed so far
    proc,           \* how the command ended: [status, code, exc]
    calls,          \* Exchanges handed to the model client so far
    stream,         \* state of the client's stream being pulled
    response_parts, \* process --stream: fragments accumulated
    turns,          \* chat: the lines Prompt.ask has delivered so far, in order
    raised,         \* exceptions raised in the command so far: << class, position >>
    log             \* records ai_utils has logged at level ERROR

vars == << cmd, argv, opts, pc, fs, environ, stdin, file_config, config, prompt_text,
           reads, console, proc, calls, stream, response_parts, turns, raised, log >>

-----------------------------------------------------------------------------
(* Bounds of the model *)

\* longest text (prompt flag, file contents, standard input), in characters
MaxLen == 2
\* most fragments the model client delivers in one stream
MaxChunks == 2
\* most lines the chat loop asks for in one run
MaxTurns == 2

-----------------------------------------------------------------------------
(* Python values *)

None == << >>
Some(x) == << x >>
Get(o) == o[1]
Optional(S) == {None} \cup {Some(x) : x \in S}

Chars == {" ", "a"}
Whitespace == {" "}

RECURSIVE TextsOfLen(_)
TextsOfLen(n) ==
    IF n = 0 THEN {<< >>}
    ELSE {Append(t, c) : t \in TextsOfLen(n - 1), c \in Chars}

Texts == UNION {TextsOfLen(n) : n \in 0..MaxLen}

\* str.strip(): drop leading and trailing whitespace
RECURSIVE lstrip(_)
lstrip(t) ==
    IF t # << >> /\ Head(t) \in Whitespace THEN lstrip(Tail(t)) ELSE t

RECURSIVE rstrip(_)
rstrip(t) ==
    IF t # << >> /\ t[Len(t)] \in Whitespace
    THEN rstrip(SubSeq(t, 1, Len(t) - 1))
    ELSE t

strip(t) == rstrip(lstrip(t))

\* truth value of an Optional text: None and the empty text are falsy
TruthyText(o) == o # None /\ Get(o) # << >>

\* truth value of an Optional str held as a TLA+ string
TruthyStr(o) == o # None /\ Get(o) # ""

-----------------------------------------------------------------------------
(* par_ai_core.llm_providers, as far as config.py uses it *)

\* members of the LlmProvider enum the model keeps
LlmProvider == {"OPENAI", "ANTHROPIC", "GROQ", "OLLAMA", "LLAMACPP", "BEDROCK"}

\* the enum's values, as they are spelled in config.toml
LlmProviderValues == {"OpenAI", "Anthropic", "Groq", "Ollama", "LlamaCpp", "Bedrock"}

ProviderOfValue(v) ==
    CASE v = "OpenAI"    -> "OPENAI"
      [] v = "Anthropic" -> "ANTHROPIC"
      [] v = "Groq"      -> "GROQ"
      [] v = "Ollama"    -> "OLLAMA"
      [] v = "LlamaCpp"  -> "LLAMACPP"
      [] v = "Bedrock"   -> "BEDROCK"

provider_env_key_names(p) ==
    CASE p = "OPENAI"    -> "OPENAI_API_KEY"
      [] p = "ANTHROPIC" -> "ANTHROPIC_API_KEY"
      [] p = "GROQ"      -> "GROQ_API_KEY"
      [] p = "BEDROCK"   -> "BEDROCK_API_KEY"
      [] OTHER           -> ""

EnvVars == {"OPENAI_API_KEY", "ANTHROPIC_API_KEY", "GROQ_API_KEY"}

\* a variable is unset (None), set to the empty string, or set to a key
EnvValues == Optional({"", "sk-1"})

Environs == [EnvVars -> EnvValues]

\* os.environ.get(name)
EnvironGet(env, name) == IF name \in DOMAIN env THEN env[name] ELSE None

-----------------------------------------------------------------------------
(* config.py: ConfigFile, AppConfig *)

TemperatureMin == 0
TemperatureMax == 20
TemperatureDefault == 5

\* ConfigFile(): every field at its default
ConfigFileDefaults ==
    [ ai_provider |-> "OPENAI",
      model       |-> None,
      light_model |-> FALSE,
      ai_base_url |-> None,
      temperature |-> TemperatureDefault,
      debug       |-> FALSE ]

ConfigFields == {"ai_provider", "model", "light_model", "ai_base_url", "temperature", "debug"}

\* FieldValid without the ge=0.0, le=2.0 bounds of the temperature Field
FieldValid_NoRange(k, v) ==
    CASE k = "ai_provider" -> v \in LlmProviderValues
      [] OTHER             -> TRUE

\* pydantic's validation of one key of the TOML table
FieldValid(k, v) ==
    CASE k = "ai_provider" -> v \in LlmProviderValues
      [] k = "temperature" -> v >= TemperatureMin /\ v <= TemperatureMax
      [] OTHER             -> TRUE

\* pydantic's conversion of one valid key to the field's type
FieldValue(k, v) ==
    CASE k = "ai_provider" -> ProviderOfValue(v)
      [] k = "model"       -> Some(v)
      [] k = "ai_base_url" -> Some(v)
      [] OTHER             -> v

\* ConfigFile(**config_data): data maps each field to None (key missing) or Some(raw value)
ConfigFileOf(data) ==
    IF \E k \in ConfigFields : data[k] # None /\ ~FieldValid(k, Get(data[k]))
    THEN [ok |-> FALSE, value |-> ConfigFileDefaults]
    ELSE [ok |-> TRUE,
          value |-> [k \in ConfigFields |->
                        IF data[k] = None THEN ConfigFileDefaults[k]
                        ELSE FieldValue(k, Get(data[k]))]]

\* a configuration file on disk
AbsentFile == [kind |-> "absent"]
UnreadableFile == [kind |-> "unreadable"]
GarbageFile == [kind |-> "garbage"]
TomlFile(data) == [kind |-> "toml", data |-> data]

\* get_config_file_path(): "local" is ./config.toml, "home" is ~/.<binary>.toml
get_config_file_path(files) ==
    IF files.local.kind # "absent" THEN "local" ELSE "home"

WarningLine(path) == << "Warning: Failed to load config file", path >>
UsingDefaultsLine == << "Using default configuration." >>

\* the body of load_config_file's try: open, tomllib.load, ConfigFile(**data).
\* [exc, value]: the exception the body raises (None: it returned value)
LoadAttempt(f) ==
    CASE f.kind = "absent"     -> [exc |-> Some("FileNotFoundError"), value |-> ConfigFileDefaults]
      [] f.kind = "unreadable" -> [exc |-> Some("PermissionError"), value |-> ConfigFileDefaults]
      [] f.kind = "garbage"    -> [exc |-> Some("TOMLDecodeError"), value |-> ConfigFileDefaults]
      [] OTHER -> IF ConfigFileOf(f.data).ok
                  THEN [exc |-> None, value |-> ConfigFileOf(f.data).value]
                  ELSE [exc |-> Some("ValidationError"), value |-> ConfigFileDefaults]

\* LoadCaught for a handler that reads `except tomllib.TOMLDecodeError`
LoadCaught_ParseErrorsOnly(cls) == cls = "TOMLDecodeError"

\* the classes `except Exception` of load_config_file catches
LoadCaught(cls) == cls \in {"FileNotFoundError", "PermissionError", "TOMLDecodeError", "ValidationError"}

\* load_config_file(): [value, printed, raised]
load_config_file(files) ==
    LET config_path == get_config_file_path(files)
        f == files[config_path]
        r == LoadAttempt(f)
    IN  IF f.kind = "absent"
        THEN [value |-> ConfigFileDefaults, printed |-> << >>, raised |-> None]
        ELSE IF r.exc = None
        THEN [value |-> r.value, printed |-> << >>, raised |-> None]
        ELSE IF LoadCaught(Get(r.exc))
        THEN [value |-> ConfigFileDefaults,
              printed |-> << WarningLine(config_path), UsingDefaultsLine >>,
              raised |-> None]
        ELSE [value |-> ConfigFileDefaults, printed |-> << >>, raised |-> r.exc]

\* merge_config with `temperature=cli_temperature or 0.5`: the built-in default
\* taken where the file's value belongs
merge_config_DefaultTemperature(fc, cli_ai_provider, cli_model, cli_light_model, cli_ai_base_url, cli_temperature, cli_debug) ==
    [ ai_provider |-> IF cli_ai_provider # None THEN Get(cli_ai_provider) ELSE fc.ai_provider,
      model       |-> IF TruthyStr(cli_model) THEN cli_model ELSE fc.model,
      light_model |-> IF cli_light_model # None THEN Get(cli_light_model) ELSE fc.light_model,
      ai_base_url |-> IF TruthyStr(cli_ai_base_url) THEN cli_ai_base_url ELSE fc.ai_base_url,
      temperature |-> IF cli_temperature # None /\ Get(cli_temperature) # 0 THEN Get(cli_temperature) ELSE TemperatureDefault,
      debug       |-> IF cli_debug # None THEN Get(cli_debug) ELSE fc.debug ]

\* merge_config(file_config, cli_...): every cli_ argument is an Optional.
\* `x or y` takes y when x is None or falsy (the empty string; an LlmProvider
\* member is never falsy), `x if x is not None else y` only when x is None.
merge_config(fc, cli_ai_provider, cli_model, cli_light_model, cli_ai_base_url, cli_temperature, cli_debug) ==
    [ ai_provider |-> IF cli_ai_provider # None THEN Get(cli_ai_provider) ELSE fc.ai_provider,
      model       |-> IF TruthyStr(cli_model) THEN cli_model ELSE fc.model,
      light_model |-> IF cli_light_model # None THEN Get(cli_light_model) ELSE fc.light_model,
      ai_base_url |-> IF TruthyStr(cli_ai_base_url) THEN cli_ai_base_url ELSE fc.ai_base_url,
      temperature |-> IF cli_temperature # None THEN Get(cli_temperature) ELSE fc.temperature,
      debug       |-> IF cli_debug # None THEN Get(cli_debug) ELSE fc.debug ]

\* validate_environment(ai_provider): [raised, printed, message]
no_key_providers == {"OLLAMA", "LLAMACPP", "BEDROCK"}

MissingKeyMessage(key_name) == << "Missing required environment variable: ", key_name >>

\* validate_environment testing `key_name not in os.environ`: an empty value passes
validate_environment_UnsetOnly(ai_provider, env) ==
    LET key_name == provider_env_key_names(ai_provider)
        ok == [raised |-> FALSE, printed |-> << >>, message |-> << >>]
    IN  IF ai_provider \in no_key_providers THEN ok
        ELSE IF EnvironGet(env, key_name) = None
             THEN [raised |-> TRUE, printed |-> << >>, message |-> MissingKeyMessage(key_name)]
             ELSE ok

validate_environment(ai_provider, env) ==
    LET key_name == provider_env_key_names(ai_provider)
        ok == [raised |-> FALSE, printed |-> << >>, message |-> << >>]
    IN  IF ai_provider \in no_key_providers THEN ok
        ELSE IF ~TruthyStr(EnvironGet(env, key_name))
             THEN [raised |-> TRUE,
                   printed |-> << << "Missing environment variable for", key_name, ai_provider >>,
                                  << "Please set the required API key in your environment." >>,
                                  << "You can add it to your .env file" >> >>,
                   message |-> MissingKeyMessage(key_name)]
             ELSE ok

-----------------------------------------------------------------------------
(* ai_utils.py: read_prompt_from_input *)

NoInputProvided == << "No input provided" >>
InputFileDoesNotExist == << "Input file does not exist" >>
NoValidInputSource == << "No valid input source provided" >>

\* read_prompt_from_input(prompt, input_file, stdin), where `contents` is the
\* Optional text of the input file (None: no such file) and `piped` is what
\* sys.stdin.read() delivers.  [raised, message, value, reads]
read_prompt_from_input(prompt, input_file, stdin_flag, contents, piped) ==
    LET returns(v, r) == [raised |-> FALSE, message |-> << >>, value |-> v, reads |-> r]
        raises(m, r) == [raised |-> TRUE, message |-> m, value |-> << >>, reads |-> r]
        exists == input_file # None /\ contents # None
    IN  IF TruthyText(prompt) THEN returns(Get(prompt), << >>)
        ELSE IF exists THEN returns(strip(Get(contents)), << "file" >>)
        ELSE IF stdin_flag \/ (~TruthyText(prompt) /\ input_file = None)
             THEN IF strip(piped) = << >>
                  THEN raises(NoInputProvided, << "stdin" >>)
                  ELSE returns(strip(piped), << "stdin" >>)
        ELSE IF input_file # None /\ ~exists THEN raises(InputFileDoesNotExist, << >>)
        ELSE raises(NoValidInputSource, << >>)

-----------------------------------------------------------------------------
(* ai_utils.py: the Exchange handed to the model client *)

DefaultSystemPrompt == << "You are a helpful assistant." >>

\* chat_history of process_ai_request and stream_ai_response
Exchange(system_prompt, prompt) == << << "system", system_prompt >>, << "user", prompt >> >>

\* summarize_text, translate_text, analyze_code: (system prompt, prompt) of the request
SummarizePrompts(text) == << << "You are an expert at summarizing text." >>, << "Please summarize the following text:" >> \o text >>
TranslatePrompts(text, language) == << << "You are an expert translator. Translate the given text to", language >>, << "Please translate the following text:" >> \o text >>
AnalyzePrompts(code) == << << "You are a code review expert." >>, << "Please analyze the following code:" >> \o code >>

-----------------------------------------------------------------------------
(* __main__.py: exceptions and the commands' try blocks *)

Commands == {"process", "chat", "config", "summarize", "translate", "analyze-code"}

KeyboardInterrupt == [cls |-> "KeyboardInterrupt", code |-> 0, msg |-> << >>]
EOFError == [cls |-> "EOFError", code |-> 0, msg |-> << >>]
ValueError(m) == [cls |-> "ValueError", code |-> 0, msg |-> m]
OSError(m) == [cls |-> "OSError", code |-> 0, msg |-> m]
ClientError == [cls |-> "ClientError", code |-> 0, msg |-> << "model client failed" >>]
\* typer.Exit is click.exceptions.Exit, a RuntimeError; str() of it is empty
Exit(code) == [cls |-> "Exit", code |-> code, msg |-> << >>]

\* `except Exception` matches every class here but KeyboardInterrupt
IsException(e) == e.cls # "KeyboardInterrupt"

Running == [status |-> "running", code |-> 0, exc |-> "none"]
Returned == [status |-> "returned", code |-> 0, exc |-> "none"]
Exited(code) == [status |-> "exit", code |-> code, exc |-> "none"]
\* an exception leaving the command function: typer.Exit ends the process
\* with its code, anything else reaches the framework as it was raised
Propagated(e) == IF e.cls = "Exit" THEN Exited(e.code) ELSE [status |-> "raised", code |-> 0, exc |-> e.cls]

ErrorLine(e) == << "Error:" >> \o e.msg
CancelledLine == << "Operation cancelled by user" >>
InterruptedLine == << "Response interrupted by user" >>
GoodbyeLine == << "Goodbye!" >>
FileNotFoundLine == << "File not found" >>

\* the try block a position lies in: "inner" is the try around the streaming
\* loop of process and around one turn of chat, "outer" the try around the
\* command body, "none" a position no try encloses
Region(c, p) ==
    CASE c = "config" -> "none"
      [] c = "process" /\ p \in {"stream_open", "stream"} -> "inner"
      [] c = "chat" /\ p \in {"ask", "stream_open", "stream"} -> "inner"
      [] OTHER -> "outer"

\* the except clauses of the command's outer try: [console, proc]
OuterCatch(c, e, con) ==
    IF c = "process" /\ e.cls = "KeyboardInterrupt"
    THEN [console |-> Append(con, CancelledLine), proc |-> Exited(0)]
    ELSE IF IsException(e)
    THEN [console |-> Append(con, ErrorLine(e)), proc |-> Exited(1)]
    ELSE [console |-> con, proc |-> Propagated(e)]

\* the except clauses of the inner try: [console, proc]
InnerCatch(c, e, con) ==
    IF c = "process" /\ e.cls = "KeyboardInterrupt"
    THEN OuterCatch(c, Exit(0), Append(con, InterruptedLine))
    ELSE IF c = "chat" /\ e.cls \in {"EOFError", "KeyboardInterrupt"}
    THEN [console |-> Append(con, GoodbyeLine), proc |-> Returned]
    ELSE OuterCatch(c, e, con)

\* exception e raised at position p of command c: [console, proc]
Throw(c, p, e, con) ==
    CASE Region(c, p) = "inner" -> InnerCatch(c, e, con)
      [] Region(c, p) = "outer" -> OuterCatch(c, e, con)
      [] OTHER -> [console |-> con, proc |-> Propagated(e)]

-----------------------------------------------------------------------------
(* __main__.py: options of the commands *)

DefaultOpts ==
    [ prompt        |-> None,
      input_file    |-> None,
      system_prompt |-> DefaultSystemPrompt,
      ai_provider   |-> None,
      model         |-> None,
      light_model   |-> None,
      ai_base_url   |-> None,
      temperature   |-> None,
      debug         |-> FALSE,
      stream        |-> FALSE,
      create        |-> FALSE,
      show          |-> FALSE,
      output_file   |-> None,
      text          |-> << >>,
      language      |-> "" ]

\* the parameters declared `T | None = None`
OptionalParams == {"prompt", "input_file", "ai_provider", "model", "light_model", "ai_base_url", "temperature", "output_file"}

\* the command line with no option given
NoArgs == [k \in DOMAIN DefaultOpts |-> None]

\* typer's checks of the options before the command function is called:
\* --temperature carries min=0.0, max=2.0 on process
TyperAccepts(c, av) ==
    c = "process" /\ av.temperature # None
        => Get(av.temperature) >= TemperatureMin /\ Get(av.temperature) <= TemperatureMax

\* the parameters typer calls the command function with: an option given on
\* the command line has its value, any other its declared default
TyperParse(av) ==
    [k \in DOMAIN DefaultOpts |->
        IF k \in OptionalParams THEN av[k]
        ELSE IF av[k] = None THEN DefaultOpts[k]
        ELSE Get(av[k])]

\* the cli_ arguments each command passes to merge_config
CliOverrides(c, o) ==
    CASE c = "process" ->
            [ai_provider |-> o.ai_provider, model |-> o.model, light_model |-> o.light_model,
             ai_base_url |-> o.ai_base_url, temperature |-> o.temperature, debug |-> Some(o.debug)]
      [] c = "chat" ->
            [ai_provider |-> o.ai_provider, model |-> o.model, light_model |-> None,
             ai_base_url |-> None, temperature |-> None, debug |-> Some(o.debug)]
      [] OTHER ->
            [ai_provider |-> None, model |-> None, light_model |-> None,
             ai_base_url |-> None, temperature |-> None, debug |-> None]

MergeFor(c, o, fc) ==
    LET cli == CliOverrides(c, o)
    IN  merge_config(fc, cli.ai_provider, cli.model, cli.light_model,
                     cli.ai_base_url, cli.temperature, cli.debug)

\* the (system prompt, prompt) pair of the command's request
PromptsFor(c, o, text) ==
    CASE c = "summarize"    -> SummarizePrompts(text)
      [] c = "translate"    -> TranslatePrompts(text, o.language)
      [] c = "analyze-code" -> AnalyzePrompts(text)
      [] OTHER              -> << o.system_prompt, text >>

\* first position of the command function
FirstPc(c) ==
    CASE c = "config" -> "config"
      [] c \in {"summarize", "analyze-code"} -> "open_input"
      [] OTHER -> "load"

\* position after validate_environment and create_llm_config
AfterValidate(c) ==
    CASE c = "process" -> "read_input"
      [] c = "chat"    -> "ask"
      [] OTHER         -> "request"

BodyPcs == {"config", "open_input", "load", "merge", "validate", "read_input",
            "request", "write_output", "ask", "stream_open", "stream"}

-----------------------------------------------------------------------------
(* chat: the lines Prompt.ask delivers *)

Lower(ch) ==
    CASE ch = "Q" -> "q"
      [] ch = "E" -> "e"
      [] OTHER    -> ch

\* a case-sensitive comparison: the line is taken as typed
lower_AsTyped(t) == t

lower(t) == [i \in 1..Len(t) |-> Lower(t[i])]

QuitWords == { << "q", "u", "i", "t" >>, << "e", "x", "i", "t" >>, << "q" >> }

ChatLines ==
    { << "q", "u", "i", "t" >>, << " ", "Q", "u", "i", "t", " " >>, << "E", "x", "i", "t" >>,
      << "q" >>, << >>, << " " >>, << "a" >>, << "q", "a" >> }

\* content of a message or chunk of the model client: a str, or a list of
\* parts (here: of str parts)
StrContent(s) == [kind |-> "str", val |-> s]
ListContent(parts) == [kind |-> "list", val |-> parts]

\* `if chunk.content`: the empty str and the empty list are false
TruthyContent(content) == IF content.kind = "str" THEN content.val # "" ELSE content.val # << >>

\* repr() of a str part, as str() of a list shows it
repr(s) == "'" \o s \o "'"

RECURSIVE JoinReprs(_)
JoinReprs(parts) ==
    IF parts = << >> THEN ""
    ELSE IF Len(parts) = 1 THEN repr(parts[1])
    ELSE repr(parts[1]) \o ", " \o JoinReprs(Tail(parts))

\* str() of a list of str parts: str(["Hel", "lo"]) is "['Hel', 'lo']"
str(parts) == "[" \o JoinReprs(parts) \o "]"

\* content if isinstance(content, str) else str(content)
ContentText(content) == IF content.kind = "str" THEN content.val ELSE str(content.val)

\* the body of the for loop of stream_ai_response: what one chunk yields
YieldOf(content) == IF TruthyContent(content) THEN << ContentText(content) >> ELSE << >>

\* fragments the model client's stream delivers
ChunkContents ==
    { StrContent(""), StrContent("Hel"), StrContent("lo"),
      ListContent(<< >>), ListContent(<< "Hel" >>), ListContent(<< "lo" >>) }

\* fragments of the chat runs: plain strings
RunChunks(c) == IF c = "chat" THEN {k \in ChunkContents : k.kind = "str"} ELSE ChunkContents

\* contents of a single-shot response
ResponseContents == { StrContent("Hello"), ListContent(<< "Hel", "lo" >>), ListContent(<< >>) }

\* where the client fails when a request starts: nowhere, in
\* build_chat_model(), or in the invoke() / stream() call
ClientFailures == {"none", "build", "call"}

\* logger.error(f"AI request failed: {e}")
RequestFailedRecord(e) == << "AI request failed: " >> \o e.msg

\* logger.error(f"Streaming AI request failed: {e}")
StreamFailedRecord(e) == << "Streaming AI request failed: " >> \o e.msg

\* the client's stream: its state and the contents it has delivered
IdleStream == [state |-> "idle", delivered |-> << >>]

-----------------------------------------------------------------------------
(* The commands, step by step *)

\* the command ends at position "done" with the given console and outcome
Ends(con, pr) ==
    /\ pc' = "done"
    /\ console' = con
    /\ proc' = pr
    /\ UNCHANGED raised

\* exception e is raised at the current position, after `con` was printed
Raises(e, con) ==
    LET r == Throw(cmd, pc, e, con)
    IN  /\ pc' = "done"
        /\ console' = r.console
        /\ proc' = r.proc
        /\ raised' = Append(raised, << e.cls, pc >>)

\* typer parses the command line and calls the command function
ParseCli ==
    /\ pc = "parse"
    /\ IF TyperAccepts(cmd, argv)
       THEN /\ opts' = TyperParse(argv)
            /\ pc' = FirstPc(cmd)
            /\ UNCHANGED << console, proc, raised >>
       ELSE /\ Ends(Append(console, << "Usage error" >>), Exited(2))
            /\ UNCHANGED opts
    /\ UNCHANGED << cmd, argv, log, fs, environ, stdin, file_config, config, prompt_text,
                    reads, calls, stream, response_parts, turns >>

\* setup_logging(); file_config = load_config_file()
LoadConfig ==
    /\ pc = "load"
    /\ LET r == load_config_file(fs)
       IN  IF r.raised = None
           THEN /\ file_config' = Some(r.value)
                /\ console' = console \o r.printed
                /\ pc' = "merge"
                /\ UNCHANGED << proc, raised >>
           ELSE /\ Raises(OSError(<< Get(r.raised) >>), console)
                /\ UNCHANGED file_config
    /\ UNCHANGED << cmd, argv, log, opts, fs, environ, stdin, config, prompt_text,
                    reads, calls, stream, response_parts, turns >>

\* config = merge_config(file_config, ...)
MergeConfig ==
    /\ pc = "merge"
    /\ config' = Some(MergeFor(cmd, opts, Get(file_config)))
    /\ pc' = "validate"
    /\ UNCHANGED << cmd, argv, log, opts, fs, environ, stdin, file_config, prompt_text,
                    reads, console, proc, calls, stream, response_parts, turns, raised >>

\* the command goes on whatever validate_environment finds
ValidateEnvironment_Unchecked ==
    /\ pc = "validate"
    /\ pc' = AfterValidate(cmd)
    /\ UNCHANGED << cmd, argv, log, opts, fs, environ, stdin, file_config, config, prompt_text,
                    reads, console, proc, calls, stream, response_parts, turns, raised >>

\* validate_environment(config["ai_provider"]); llm_config = create_llm_config(config)
ValidateEnvironment ==
    /\ pc = "validate"
    /\ LET r == validate_environment(Get(config).ai_provider, environ)
       IN  IF r.raised
           THEN Raises(ValueError(r.message), console \o r.printed)
           ELSE /\ pc' = AfterValidate(cmd)
                /\ UNCHANGED << console, proc, raised >>
    /\ UNCHANGED << cmd, argv, log, opts, fs, environ, stdin, file_config, config, prompt_text,
                    reads, calls, stream, response_parts, turns >>

\* process: stdin_mode = prompt is None and input_file is None;
\* prompt_text = read_prompt_from_input(prompt, input_file, stdin_mode)
ReadInput ==
    /\ pc = "read_input"
    /\ LET stdin_mode == opts.prompt = None /\ opts.input_file = None
           r == read_prompt_from_input(opts.prompt, opts.input_file, stdin_mode, fs.input, stdin)
       IN  /\ reads' = reads \o r.reads
           /\ IF r.raised
              THEN /\ Raises(ValueError(r.message), console)
                   /\ UNCHANGED prompt_text
              ELSE /\ prompt_text' = Some(r.value)
                   /\ pc' = IF opts.stream THEN "stream_open" ELSE "request"
                   /\ UNCHANGED << console, proc, raised >>
    /\ UNCHANGED << cmd, argv, log, opts, fs, environ, stdin, file_config, config,
                    calls, stream, response_parts, turns >>

\* summarize, analyze-code: the exists() check and input_file.read_text()
OpenInput ==
    /\ pc = "open_input"
    /\ IF fs.input = None
       THEN /\ Raises(Exit(1), Append(console, FileNotFoundLine))
            /\ UNCHANGED << prompt_text, reads >>
       ELSE /\ prompt_text' = fs.input
            /\ reads' = Append(reads, "file")
            /\ pc' = "load"
            /\ UNCHANGED << console, proc, raised >>
    /\ UNCHANGED << cmd, argv, log, opts, fs, environ, stdin, file_config, config,
                    calls, stream, response_parts, turns >>

\* the text the command sends: translate takes it from its argument
RequestText == IF cmd = "translate" THEN opts.text ELSE Get(prompt_text)

\* a chat_history kept across requests: the new user message is appended to
\* the messages of the request before
RequestExchange_WithHistory ==
    LET ps == PromptsFor(cmd, opts, RequestText)
    IN  IF calls = << >> THEN Exchange(ps[1], ps[2])
        ELSE Append(calls[Len(calls)], << "user", ps[2] >>)

RequestExchange ==
    LET ps == PromptsFor(cmd, opts, RequestText)
    IN  Exchange(ps[1], ps[2])

\* process_ai_request (directly, or through summarize_text, translate_text,
\* analyze_code) and the display of its result
Request ==
    /\ pc = "request"
    /\ \E fails \in ClientFailures :
          /\ calls' = IF fails = "build" THEN calls ELSE Append(calls, RequestExchange)
          /\ log' = IF fails = "none" THEN log ELSE Append(log, RequestFailedRecord(ClientError))
          /\ IF fails # "none"
             THEN Raises(ClientError, console)
             ELSE IF cmd = "summarize" /\ opts.output_file # None
             THEN /\ pc' = "write_output"
                  /\ UNCHANGED << console, proc, raised >>
             ELSE \E content \in ResponseContents :
                     Ends(Append(console, << ContentText(content) >>), Returned)
    /\ UNCHANGED << cmd, argv, opts, fs, environ, stdin, file_config, config, prompt_text,
                    reads, stream, response_parts, turns >>

\* summarize: output_file.write_text(summary)
WriteOutput ==
    /\ pc = "write_output"
    /\ IF fs.writable
       THEN Ends(Append(console, << "Summary saved to:", Get(opts.output_file) >>), Returned)
       ELSE Raises(OSError(<< "Permission denied" >>), console)
    /\ UNCHANGED << cmd, argv, log, opts, fs, environ, stdin, file_config, config, prompt_text,
                    reads, calls, stream, response_parts, turns >>

\* the first pull on stream_ai_response: build the chat model, call its stream
StreamOpen ==
    /\ pc = "stream_open"
    /\ \E fails \in ClientFailures :
          /\ calls' = IF fails = "build" THEN calls ELSE Append(calls, RequestExchange)
          /\ log' = IF fails = "none" THEN log ELSE Append(log, StreamFailedRecord(ClientError))
          /\ IF fails # "none"
             THEN /\ Raises(ClientError, console)
                  /\ UNCHANGED stream
             ELSE /\ stream' = [state |-> "open", delivered |-> << >>]
                  /\ pc' = "stream"
                  /\ UNCHANGED << console, proc, raised >>
    /\ UNCHANGED << cmd, argv, opts, fs, environ, stdin, file_config, config, prompt_text,
                    reads, response_parts, turns >>

\* the client delivers a fragment: a non-empty one is yielded, printed and
\* (in process) appended to response_parts
StreamChunk ==
    /\ pc = "stream"
    /\ Len(stream.delivered) < MaxChunks
    /\ \E chunk \in RunChunks(cmd) :
          /\ stream' = [stream EXCEPT !.delivered = Append(@, chunk)]
          /\ console' = console \o [i \in 1..Len(YieldOf(chunk)) |-> << YieldOf(chunk)[i] >>]
          /\ response_parts' = IF cmd = "process" THEN response_parts \o YieldOf(chunk)
                               ELSE response_parts
    /\ UNCHANGED << cmd, argv, log, opts, pc, fs, environ, stdin, file_config, config, prompt_text,
                    reads, proc, calls, turns, raised >>

\* the generator logs the client's error and returns instead of re-raising
StreamError_Swallowed ==
    /\ pc = "stream"
    /\ log' = Append(log, StreamFailedRecord(ClientError))
    /\ stream' = IdleStream
    /\ IF cmd = "chat"
       THEN /\ pc' = "ask"
            /\ UNCHANGED << console, proc, raised >>
       ELSE Ends(console, Returned)
    /\ UNCHANGED << cmd, argv, opts, fs, environ, stdin, file_config, config, prompt_text,
                    reads, calls, response_parts, turns >>

\* the client raises while the stream is pulled
StreamError ==
    /\ pc = "stream"
    /\ log' = Append(log, StreamFailedRecord(ClientError))
    /\ Raises(ClientError, console)
    /\ stream' = IdleStream
    /\ UNCHANGED << cmd, argv, opts, fs, environ, stdin, file_config, config, prompt_text,
                    reads, calls, response_parts, turns >>

\* the stream is exhausted: process ends, chat asks for the next line
StreamEnd ==
    /\ pc = "stream"
    /\ stream' = IdleStream
    /\ IF cmd = "chat"
       THEN /\ pc' = "ask"
            /\ UNCHANGED << console, proc, raised >>
       ELSE Ends(console, Returned)
    /\ UNCHANGED << cmd, argv, log, opts, fs, environ, stdin, file_config, config, prompt_text,
                    reads, calls, response_parts, turns >>

\* chat: user_input = Prompt.ask(...).strip(), then the quit / empty tests
Ask ==
    /\ pc = "ask"
    /\ Len(turns) < MaxTurns
    /\ \E line \in ChatLines :
          LET user_input == strip(line)
          IN  /\ turns' = Append(turns, line)
              /\ IF lower(user_input) \in QuitWords
                 THEN /\ Ends(Append(console, GoodbyeLine), Returned)
                      /\ UNCHANGED prompt_text
                 ELSE IF user_input = << >>
                 THEN UNCHANGED << pc, console, proc, prompt_text, raised >>
                 ELSE /\ prompt_text' = Some(user_input)
                      /\ pc' = "stream_open"
                      /\ UNCHANGED << console, proc, raised >>
    /\ UNCHANGED << cmd, argv, log, opts, fs, environ, stdin, file_config, config,
                    reads, calls, stream, response_parts >>

\* chat: standard input ends while Prompt.ask waits
AskEof ==
    /\ pc = "ask"
    /\ Raises(EOFError, console)
    /\ UNCHANGED << cmd, argv, log, opts, fs, environ, stdin, file_config, config, prompt_text,
                    reads, calls, stream, response_parts, turns >>

\* the table create_example_config writes: lines 99-104 of config.py
ExampleConfigData ==
    [ ai_provider |-> Some("OpenAI"),
      model       |-> Some(""),
      light_model |-> Some(FALSE),
      ai_base_url |-> Some(""),
      temperature |-> Some(TemperatureDefault),
      debug       |-> Some(FALSE) ]

\* create_example_config(): [files, printed, raised]
create_example_config(files) ==
    IF files.local.kind # "absent"
    THEN [files |-> files, printed |-> << << "Config file already exists." >> >>, raised |-> None]
    ELSE IF ~files.writable
    THEN [files |-> files, printed |-> << >>, raised |-> Some(<< "Permission denied" >>)]
    ELSE [files |-> [files EXCEPT !.local = TomlFile(ExampleConfigData)],
          printed |-> << << "Created example config file" >>, << "Please edit it with your preferred settings." >> >>,
          raised |-> None]

\* config: --create, --show, or the hint
ConfigCommand ==
    /\ pc = "config"
    /\ IF opts.create
       THEN LET r == create_example_config(fs)
            IN  /\ fs' = r.files
                /\ IF r.raised = None
                   THEN Ends(console \o r.printed, Returned)
                   ELSE Raises(OSError(Get(r.raised)), console)
                /\ UNCHANGED file_config
       ELSE IF opts.show
       THEN LET r == load_config_file(fs)
            IN  /\ IF r.raised = None
                   THEN /\ file_config' = Some(r.value)
                        /\ Ends(Append(console \o r.printed, << "Current Configuration" >>), Returned)
                   ELSE /\ Raises(OSError(<< Get(r.raised) >>), console)
                        /\ UNCHANGED file_config
                /\ UNCHANGED fs
       ELSE /\ Ends(Append(console, << "Use --create or --show" >>), Returned)
            /\ UNCHANGED << fs, file_config >>
    /\ UNCHANGED << cmd, argv, log, opts, environ, stdin, config, prompt_text,
                    reads, calls, stream, response_parts, turns >>

\* a KeyboardInterrupt is delivered while the command is at position pc
Interrupt ==
    /\ pc \in BodyPcs
    /\ Raises(KeyboardInterrupt, console)
    /\ UNCHANGED << cmd, argv, log, opts, fs, environ, stdin, file_config, config, prompt_text,
                    reads, calls, stream, response_parts, turns >>

-----------------------------------------------------------------------------
(* Runs of the six commands *)

\* config files of the command runs
FileA == [ExampleConfigData EXCEPT !.ai_provider = Some("Ollama"), !.model = None, !.light_model = Some(TRUE), !.ai_base_url = None, !.temperature = Some(7), !.debug = Some(TRUE)]
FileHot == [FileA EXCEPT !.ai_provider = None, !.temperature = Some(25)]
FileHome == [FileA EXCEPT !.ai_provider = Some("Anthropic"), !.temperature = Some(TemperatureMax)]

RunConfigFiles(c) ==
    IF c = "chat"
    THEN { [local |-> l, home |-> AbsentFile] : l \in {AbsentFile, TomlFile(FileA)} }
    ELSE { [local |-> l, home |-> AbsentFile] : l \in {AbsentFile, TomlFile(FileA), TomlFile(FileHot), GarbageFile} }
         \cup { [local |-> AbsentFile, home |-> TomlFile(FileHome)] }

\* texts of the command runs: empty, blank, padded
RunTexts == { << >>, << " " >>, << "a", " " >> }

\* environments of the command runs: only OPENAI_API_KEY varies
RunEnvirons == {e \in Environs : e["ANTHROPIC_API_KEY"] = None /\ e["GROQ_API_KEY"] = None}

InputName == "input.txt"

ArgvOf(c) ==
    CASE c = "process" ->
            { [NoArgs EXCEPT !.prompt = p, !.input_file = i, !.ai_provider = a,
                             !.light_model = l, !.temperature = t, !.debug = d, !.stream = s] :
                p \in Optional({<< "a" >>}), i \in Optional({InputName}),
                a \in Optional({"OLLAMA"}), l \in Optional({TRUE}),
                t \in Optional({13, TemperatureMax + 1}),
                d \in Optional({TRUE}), s \in Optional({TRUE}) }
      [] c = "chat" ->
            { [NoArgs EXCEPT !.ai_provider = a, !.model = m, !.debug = d] :
                a \in Optional({"OLLAMA"}), m \in {Some("gpt-4")}, d \in Optional({TRUE}) }
      [] c = "config" ->
            { [NoArgs EXCEPT !.create = cr, !.show = sh] :
                cr \in Optional({TRUE}), sh \in Optional({TRUE}) }
      [] c = "summarize" ->
            { [NoArgs EXCEPT !.input_file = Some(InputName), !.output_file = o] :
                o \in Optional({"summary.txt"}) }
      [] c = "translate" ->
            { [NoArgs EXCEPT !.text = Some(t), !.language = Some("Spanish")] : t \in Texts }
      [] OTHER ->
            { [NoArgs EXCEPT !.input_file = Some(InputName)] }

\* the input file: process is only called with an existing file (exists=True)
InputsOf(c, av) ==
    CASE c = "process" -> IF av.input_file = None THEN {None} ELSE {Some(t) : t \in RunTexts}
      [] c \in {"summarize", "analyze-code"} -> Optional(RunTexts)
      [] OTHER -> {None}

FilesOf(c, av) ==
    { [local |-> cf.local, home |-> cf.home, input |-> i, writable |-> w] :
        cf \in RunConfigFiles(c), i \in InputsOf(c, av),
        w \in IF c \in {"config", "summarize"} THEN BOOLEAN ELSE {TRUE} }

\* standard input matters to process when neither --prompt nor --input-file is given
StdinOf(c, av) ==
    IF c = "process" /\ av.prompt = None /\ av.input_file = None THEN RunTexts ELSE {<< >>}

\* everything a run has not produced yet
Fresh ==
    /\ file_config = None
    /\ config = None
    /\ prompt_text = None
    /\ reads = << >>
    /\ console = << >>
    /\ proc = Running
    /\ calls = << >>
    /\ stream = IdleStream
    /\ response_parts = << >>
    /\ turns = << >>
    /\ raised = << >>
    /\ log = << >>

Init ==
    /\ cmd \in Commands
    /\ argv \in ArgvOf(cmd)
    /\ opts = DefaultOpts
    /\ fs \in FilesOf(cmd, argv)
    /\ environ \in RunEnvirons
    /\ stdin \in StdinOf(cmd, argv)
    /\ pc = "parse"
    /\ Fresh

Next ==
    \/ ParseCli
    \/ LoadConfig
    \/ MergeConfig
    \/ ValidateEnvironment
    \/ ReadInput
    \/ OpenInput
    \/ Request
    \/ WriteOutput
    \/ StreamOpen
    \/ StreamChunk
    \/ StreamError
    \/ StreamEnd
    \/ Ask
    \/ AskEof
    \/ ConfigCommand
    \/ Interrupt

Spec == Init /\ [][Next]_vars

-----------------------------------------------------------------------------
(* Configuration resolution: parse, load_config_file, merge_config *)

NextConfig ==
    \/ ParseCli
    \/ LoadConfig
    \/ MergeConfig

NoInputFiles(l, h) == [local |-> l, home |-> h, input |-> None, writable |-> TRUE]

NoKeys == [v \in EnvVars |-> None]

\* every TOML table over a few values per key, valid and invalid
TomlTables ==
    [ ai_provider : Optional({"OpenAI", "Ollama", "bogus"}),
      model       : Optional({"", "gpt-4"}),
      light_model : Optional(BOOLEAN),
      ai_base_url : Optional({"http://h"}),
      temperature : Optional({TemperatureMin - 1, TemperatureMin, 7, TemperatureMax, TemperatureMax + 1, 25}),
      debug       : Optional(BOOLEAN) ]

\* the tables the runs with command-line overrides start from
OverriddenTables ==
    [ ai_provider : Optional({"Ollama"}),
      model       : Optional({"", "gpt-4"}),
      light_model : Optional({TRUE}),
      ai_base_url : Optional({"http://h"}),
      temperature : Optional({TemperatureMin, 7, TemperatureMax, 25}),
      debug       : Optional({TRUE}) ]

OverridingArgv(c) ==
    IF c = "process"
    THEN { [NoArgs EXCEPT !.prompt = Some(<< "a" >>), !.ai_provider = a, !.model = m, !.light_model = l,
                          !.ai_base_url = b, !.temperature = t, !.debug = d] :
             a \in Optional({"ANTHROPIC"}), m \in Optional({"", "m"}), l \in Optional(BOOLEAN),
             b \in Optional({"", "u"}),
             t \in Optional({TemperatureMin - 1, TemperatureMin, 13, TemperatureMax, TemperatureMax + 1}),
             d \in Optional({TRUE}) }
    ELSE { [NoArgs EXCEPT !.ai_provider = a, !.model = m, !.debug = d] :
             a \in Optional({"ANTHROPIC"}), m \in Optional({"", "m"}), d \in Optional(BOOLEAN) }

InitConfig ==
    /\ \/ /\ cmd = "translate"
          /\ argv = [NoArgs EXCEPT !.text = Some(<< "a" >>), !.language = Some("Spanish")]
          /\ fs \in { NoInputFiles(l, h) :
                        l \in {AbsentFile, UnreadableFile, GarbageFile} \cup {TomlFile(d) : d \in TomlTables},
                        h \in {AbsentFile, GarbageFile, TomlFile(FileHome)} }
       \/ /\ cmd \in {"process", "chat"}
          /\ argv \in OverridingArgv(cmd)
          /\ fs \in { NoInputFiles(TomlFile(d), AbsentFile) : d \in OverriddenTables }
    /\ opts = DefaultOpts
    /\ environ = NoKeys
    /\ stdin = << >>
    /\ pc = "parse"
    /\ Fresh

SpecConfig == InitConfig /\ [][NextConfig]_vars

\* the file load_config_file reads
UsedFile == fs[IF fs.local.kind # "absent" THEN "local" ELSE "home"]

WarningPrinted == \E i \in 1..Len(console) : console[i][1] = "Warning: Failed to load config file"

TableValid(d) ==
    /\ d.ai_provider # None => Get(d.ai_provider) \in {"OpenAI", "Anthropic", "Groq", "Ollama", "LlamaCpp", "Bedrock"}
    /\ d.temperature # None => Get(d.temperature) \in TemperatureMin..TemperatureMax

\* C5: merge_config: whenever a CLI override value is supplied (any non-null
\* value, including False, 0.0 and the empty string) the merged AppConfig holds
\* the CLI value for that field, not the file value.
C5_CliValueAlwaysWins ==
    (cmd = "process" /\ config # None) =>
        /\ opts.ai_provider # None => Get(config).ai_provider = Get(opts.ai_provider)
        /\ opts.model # None => Get(config).model = opts.model
        /\ opts.light_model # None => Get(config).light_model = Get(opts.light_model)
        /\ opts.ai_base_url # None => Get(config).ai_base_url = opts.ai_base_url
        /\ opts.temperature # None => Get(config).temperature = Get(opts.temperature)
        /\ Get(config).debug = opts.debug

\* C6: in process and chat, a configuration field for which the user gave no
\* CLI option takes the config file's value in the effective AppConfig; in
\* particular debug, light_model and temperature.
C6_UngivenOptionTakesFileValue ==
    (cmd \in {"process", "chat"} /\ config # None) =>
        \A k \in ConfigFields : argv[k] = None => Get(config)[k] = Get(file_config)[k]

\* C7: round trip: for a config file whose fields are all valid,
\* load_config_file followed by merge_config with every CLI override absent
\* yields an AppConfig whose six fields equal the file's values (fields
\* missing from the file equal the built-in defaults).
C7_RoundTrip ==
    (cmd = "translate" /\ config # None /\ UsedFile.kind = "toml" /\ TableValid(UsedFile.data)) =>
        LET d == UsedFile.data
            c == Get(config)
        IN  /\ \A k \in ConfigFields : d[k] = None => c[k] = ConfigFileDefaults[k]
            /\ d.ai_provider # None =>
                  << Get(d.ai_provider), c.ai_provider >> \in
                      { << "OpenAI", "OPENAI" >>, << "Anthropic", "ANTHROPIC" >>, << "Groq", "GROQ" >>,
                        << "Ollama", "OLLAMA" >>, << "LlamaCpp", "LLAMACPP" >>, << "Bedrock", "BEDROCK" >> }
            /\ d.model # None => c.model = d.model
            /\ d.ai_base_url # None => c.ai_base_url = d.ai_base_url
            /\ d.light_model # None => c.light_model = Get(d.light_model)
            /\ d.temperature # None => c.temperature = Get(d.temperature)
            /\ d.debug # None => c.debug = Get(d.debug)

C7_Witness ==
    /\ cmd = "translate"
    /\ config # None
    /\ UsedFile.kind = "toml"
    /\ UsedFile.data = [ai_provider |-> Some("Ollama"), model |-> Some(""), light_model |-> Some(TRUE),
                        ai_base_url |-> Some("http://h"), temperature |-> Some(TemperatureMax), debug |-> Some(TRUE)]
    /\ Get(config) = [ai_provider |-> "OLLAMA", model |-> Some(""), light_model |-> TRUE,
                      ai_base_url |-> Some("http://h"), temperature |-> TemperatureMax, debug |-> TRUE]

\* C8: the temperature of the AppConfig merge_config produces is never outside
\* [0.0, 2.0]; a config file with temperature 2.5 fails validation in
\* load_config_file and the resulting temperature is the default 0.5, never 2.5.
C8_TemperatureInRange ==
    /\ config # None => Get(config).temperature \in TemperatureMin..TemperatureMax
    /\ (file_config # None /\ UsedFile.kind = "toml" /\ UsedFile.data.temperature = Some(25)) =>
          /\ Get(file_config).temperature = TemperatureDefault
          /\ (config # None /\ opts.temperature = None) => Get(config).temperature = TemperatureDefault

C8_Witness ==
    /\ cmd = "process"
    /\ config # None
    /\ UsedFile.kind = "toml"
    /\ UsedFile.data.temperature = Some(25)
    /\ opts.temperature = None
    /\ Get(config).temperature = TemperatureDefault

\* C9: load_config_file never raises.  When the resolved path does not exist
\* it returns the all-default record; when reading, parsing or the validation
\* of any single field fails it prints a warning and returns the all-default
\* record, and it does not fall through to the other config file.
C9_LoadFailOpen ==
    /\ raised = << >>
    /\ pc \in {"merge", "validate"} => file_config # None
    /\ file_config # None =>
          LET f == UsedFile
              broken == f.kind \in {"unreadable", "garbage"} \/ (f.kind = "toml" /\ ~TableValid(f.data))
          IN  /\ f.kind = "absent" => (Get(file_config) = ConfigFileDefaults /\ ~WarningPrinted)
              /\ broken => (Get(file_config) = ConfigFileDefaults /\ WarningPrinted)
              /\ (fs.local.kind # "absent" /\ fs.home.kind = "toml" /\ broken) =>
                    Get(file_config).ai_provider # "ANTHROPIC"

C9_Witness ==
    /\ file_config # None
    /\ fs.local.kind = "toml"
    /\ fs.local.data.temperature = Some(25)
    /\ fs.local.data.debug = Some(TRUE)
    /\ fs.home = TomlFile(FileHome)
    /\ Get(file_config) = ConfigFileDefaults
    /\ WarningPrinted

-----------------------------------------------------------------------------
(* Environment validation: every provider against every environment *)

NextEnv ==
    \/ ParseCli
    \/ LoadConfig
    \/ MergeConfig
    \/ ValidateEnvironment

InitEnv ==
    /\ cmd = "translate"
    /\ argv = [NoArgs EXCEPT !.text = Some(<< "a" >>), !.language = Some("Spanish")]
    /\ opts = DefaultOpts
    /\ fs \in { NoInputFiles(TomlFile([ExampleConfigData EXCEPT !.ai_provider = Some(v)]), AbsentFile) :
                  v \in LlmProviderValues }
    /\ environ \in Environs
    /\ stdin = << >>
    /\ pc = "parse"
    /\ Fresh

SpecEnv == InitEnv /\ [][NextEnv]_vars

\* validate_environment has run: it returned, or its ValueError ended the command
Validated == config # None /\ pc \in {"request", "done"}

ValidationFailed == \E i \in 1..Len(raised) : raised[i] = << "ValueError", "validate" >>

\* the credential variable of each provider that needs one
CredentialVariable(p) ==
    CASE p = "OPENAI"    -> "OPENAI_API_KEY"
      [] p = "ANTHROPIC" -> "ANTHROPIC_API_KEY"
      [] p = "GROQ"      -> "GROQ_API_KEY"

C4_States ==
    Validated =>
        LET p == Get(config).ai_provider
        IN  IF p \in {"OLLAMA", "LLAMACPP", "BEDROCK"}
            THEN ~ValidationFailed /\ pc = "request"
            ELSE /\ ValidationFailed <=> environ[CredentialVariable(p)] \in {None, Some("")}
                 /\ ValidationFailed =>
                       console[Len(console)] = << "Error:", "Missing required environment variable: ", CredentialVariable(p) >>
                 /\ ~ValidationFailed => pc = "request"

\* C4: validate_environment(provider) returns without error for every provider
\* of the no-key allow-list whatever the environment; for every other provider
\* it fails exactly when the provider's credential variable is unset or empty,
\* with a message that names the variable; it never modifies the environment.
C4_ValidateEnvironment == []C4_States /\ [][environ' = environ]_vars

C4_Witness ==
    /\ Validated
    /\ Get(config).ai_provider = "ANTHROPIC"
    /\ environ["ANTHROPIC_API_KEY"] = Some("")
    /\ environ["OPENAI_API_KEY"] = Some("sk-1")
    /\ ValidationFailed
    /\ proc = Exited(1)

-----------------------------------------------------------------------------
(* Input-source resolution of process: every flag, file and standard input *)

NextInput ==
    \/ ParseCli
    \/ LoadConfig
    \/ MergeConfig
    \/ ValidateEnvironment
    \/ ReadInput

InitInput ==
    /\ cmd = "process"
    /\ argv \in { [NoArgs EXCEPT !.prompt = p, !.input_file = i, !.ai_provider = Some("OLLAMA")] :
                    p \in Optional(Texts), i \in Optional({InputName}) }
    /\ opts = DefaultOpts
    /\ fs \in { [local |-> AbsentFile, home |-> AbsentFile, input |-> c, writable |-> TRUE] :
                  c \in IF argv.input_file = None THEN {None} ELSE {Some(t) : t \in Texts} }
    /\ environ = NoKeys
    /\ stdin \in Texts
    /\ pc = "parse"
    /\ Fresh

SpecInput == InitInput /\ [][NextInput]_vars

\* read_prompt_from_input has run: it returned, or its ValueError ended the command
InputRead == pc \in {"request", "stream_open", "done"}

\* the text with its leading and trailing blanks removed, told by its parts
IsTrimmed(t, whole) ==
    /\ t = << >> \/ (t[1] # " " /\ t[Len(t)] # " ")
    /\ \E i \in 0..Len(whole), j \in 0..Len(whole) :
          /\ i + Len(t) + j = Len(whole)
          /\ \A k \in 1..i : whole[k] = " "
          /\ \A k \in 1..Len(t) : whole[i + k] = t[k]
          /\ \A k \in 1..j : whole[i + Len(t) + k] = " "

\* C10: read_prompt_from_input, as process calls it, chooses exactly one source
\* by priority flag > file > standard input: a supplied prompt flag (any string)
\* is returned and nothing is read; with only a file its trimmed contents are
\* returned and standard input is not read; with neither, standard input is
\* read and trimmed; an empty result is an error, never the prompt.
C10_InputSourcePriority ==
    InputRead =>
        /\ opts.prompt # None => (prompt_text = opts.prompt /\ reads = << >>)
        /\ (opts.prompt = None /\ opts.input_file # None) =>
              /\ reads = << "file" >>
              /\ prompt_text # None => IsTrimmed(Get(prompt_text), Get(fs.input))
        /\ (opts.prompt = None /\ opts.input_file = None) =>
              /\ reads = << "stdin" >>
              /\ prompt_text # None => IsTrimmed(Get(prompt_text), stdin)
        /\ prompt_text # None => Get(prompt_text) # << >>
        /\ prompt_text = None => proc = Exited(1)

-----------------------------------------------------------------------------
(* Interrupts and errors at the commands' top level (under Spec) *)

Interrupted == \E i \in 1..Len(raised) : raised[i][1] = "KeyboardInterrupt"

\* an error raised by a step of the command body: a failed validation or
\* input read, a file that cannot be written, a failed model request
ErrorRaised == \E i \in 1..Len(raised) : raised[i][1] \in {"ValueError", "OSError", "ClientError"}

ErrorPrinted == \E i \in 1..Len(console) : console[i][1] = "Error:"

FriendlyPrinted == \E i \in 1..Len(console) : console[i] \in {CancelledLine, InterruptedLine, GoodbyeLine}

\* C1: in process, a KeyboardInterrupt raised at any step of the command body,
\* also while fragments are pulled in --stream mode, ends the command with a
\* friendly cancellation message and exit status 0, never with exit status 1
\* or an "Error:" message.
C1_ProcessInterruptExitsZero ==
    (cmd = "process" /\ Interrupted) =>
        /\ proc = Exited(0)
        /\ FriendlyPrinted
        /\ ~ErrorPrinted

\* C2: in each of the six commands an interrupt delivered at any point of the
\* command body is caught at the command's top level, which prints a friendly
\* message and exits with a defined status; it never leaves the command as a
\* raw KeyboardInterrupt.
C2_InterruptNeverEscapes ==
    Interrupted =>
        /\ proc.status \in {"exit", "returned"}
        /\ proc.exc # "KeyboardInterrupt"
        /\ FriendlyPrinted

\* C3: in each of the six commands every error raised by a step of the command
\* body is caught at the command's top level, shown as an "Error:" message,
\* and the command ends with exit status 1; no exception but the framework's
\* exit signal leaves a command.
C3_ErrorsCaughtAtTopLevel ==
    /\ proc.status # "raised" \/ Interrupted
    /\ ErrorRaised => (proc = Exited(1) /\ ErrorPrinted)

-----------------------------------------------------------------------------
(* The request orchestrator: streaming against single-shot *)

RECURSIVE JoinText(_)
\* "".join(fragments)
JoinText(fragments) ==
    IF fragments = << >> THEN "" ELSE Head(fragments) \o JoinText(Tail(fragments))

\* the contents are all str, or all lists
SameKind(contents) == \A i, j \in 1..Len(contents) : contents[i].kind = contents[j].kind

RECURSIVE ConcatContents(_)
\* the single-shot content of a deterministic client whose stream delivers
\* `contents`: their concatenation, str to str or list to list
ConcatContents(contents) ==
    IF Len(contents) = 1 THEN contents[1]
    ELSE LET rest == ConcatContents(Tail(contents))
         IN  [kind |-> contents[1].kind, val |-> contents[1].val \o rest.val]

\* the delivered contents that are not empty, in arrival order
RECURSIVE NonEmptyContents(_)
NonEmptyContents(contents) ==
    IF contents = << >> THEN << >>
    ELSE (IF Len(Head(contents).val) = 0 THEN << >> ELSE << Head(contents) >>)
         \o NonEmptyContents(Tail(contents))

\* process --stream is pulling a stream that has delivered at least one content
Streaming == cmd = "process" /\ pc = "stream" /\ stream.delivered # << >>

\* C11: for a deterministic model client, stream_ai_response yields, in
\* arrival order, exactly the non-empty content fragments of the client's
\* stream (one fragment each, none duplicated or reordered), and the
\* concatenation of the yielded fragments equals the text process_ai_request
\* returns when the client's single-shot content is the concatenation of the
\* streamed contents, also when the content is a list and is coerced.
C11_StreamEqualsSingleShot ==
    (Streaming /\ SameKind(stream.delivered)) =>
        /\ Len(response_parts) = Len(NonEmptyContents(stream.delivered))
        /\ \A i \in 1..Len(response_parts) :
              response_parts[i] = ContentText(NonEmptyContents(stream.delivered)[i])
        /\ JoinText(response_parts) = ContentText(ConcatContents(stream.delivered))
-----------------------------------------------------------------------------
(* The chat loop *)

\* the lines of ChatLines that are quit, exit or q once trimmed, in any case
QuitLines == { << "q", "u", "i", "t" >>, << " ", "Q", "u", "i", "t", " " >>,
               << "E", "x", "i", "t" >>, << "q" >> }

\* the lines of ChatLines that are empty once trimmed
BlankLines == { << >>, << " " >> }

\* the lines delivered so far that are neither: each is its own trimmed text
SpokenLines == SelectSeq(turns, LAMBDA l : l \notin QuitLines \cup BlankLines)

LastLine == turns[Len(turns)]

\* positions of the chat loop
LoopPcs == {"ask", "stream_open", "stream"}

\* end-of-input or an interrupt reached the loop
LoopBroken ==
    \E i \in 1..Len(raised) :
        raised[i][1] \in {"EOFError", "KeyboardInterrupt"} /\ raised[i][2] \in LoopPcs

RECURSIVE PrintedFragments(_)
\* the console lines of the non-empty str fragments, in arrival order
PrintedFragments(contents) ==
    IF contents = << >> THEN << >>
    ELSE (IF Head(contents).val = "" THEN << >> ELSE << << Head(contents).val >> >>)
         \o PrintedFragments(Tail(contents))

ConsoleTail(n) == SubSeq(console, Len(console) - n + 1, Len(console))

C12_States ==
    cmd = "chat" =>
        \* a quit line is the last line read, ends the loop, and makes no call
        /\ \A i \in 1..Len(turns) : turns[i] \in QuitLines =>
              /\ i = Len(turns)
              /\ pc = "done" /\ proc = Returned
              /\ console[Len(console)] = GoodbyeLine
              /\ Len(calls) = Len(SpokenLines)
        \* end-of-input or an interrupt ends the loop
        /\ LoopBroken => pc = "done" /\ proc = Returned /\ console[Len(console)] = GoodbyeLine
        \* after a blank line the loop goes on, with no call for it
        /\ (turns # << >> /\ LastLine \in BlankLines /\ raised = << >>) =>
              pc = "ask" /\ proc = Running /\ Len(calls) = Len(SpokenLines)
        \* every other line: one streaming request, for that line
        /\ Len(calls) <= Len(SpokenLines)
        /\ \A k \in 1..Len(calls) : calls[k][2] = << "user", SpokenLines[k] >>
        /\ pc \in {"ask", "stream"} => Len(calls) = Len(SpokenLines)
        /\ pc = "stream_open" =>
              LastLine \notin QuitLines \cup BlankLines /\ Len(calls) = Len(SpokenLines) - 1
        \* its fragments are printed in order
        /\ pc = "stream" =>
              /\ Len(console) >= Len(PrintedFragments(stream.delivered))
              /\ ConsoleTail(Len(PrintedFragments(stream.delivered))) = PrintedFragments(stream.delivered)

C12_Steps ==
    cmd = "chat" =>
        \* a model call is made only for the line just read
        /\ calls' # calls => pc = "stream_open" /\ Len(calls') = Len(calls) + 1
        \* after the stream the loop reads the next line
        /\ (pc = "stream" /\ pc' # "stream" /\ raised' = raised) => pc' = "ask"
        \* nothing is called once the loop has terminated
        /\ pc = "done" => calls' = calls /\ pc' = "done"

\* C12: in the chat loop a line that trims to quit, exit or q (any case)
\* terminates the loop with no model call for it; end-of-input or an
\* interrupt, while prompting or streaming, terminates it; a blank line
\* makes no call and the loop continues; every other line causes exactly one
\* streaming request whose fragments are printed in order, after which the
\* next line is read; no model call follows the loop's termination.
C12_ChatLoop == []C12_States /\ [][C12_Steps]_vars

\* the session asked for MaxTurns lines, streamed at least one answer and
\* was then ended by a quit line
C12_Witness ==
    /\ cmd = "chat" /\ pc = "done" /\ proc = Returned
    /\ Len(turns) = MaxTurns /\ LastLine \in QuitLines
    /\ Len(calls) = Len(SpokenLines) /\ Len(calls) >= 1
    /\ \E i \in 1..Len(console) : console[i] \in {<< "Hel" >>, << "lo" >>}
-----------------------------------------------------------------------------
(* Validation before any model call *)

\* the commands that talk to the model
ModelCommands == Commands \ {"config"}

\* the effective provider needs no key, or its credential variable is set
\* and not empty
CredentialPresent ==
    /\ config # None
    /\ LET p == Get(config).ai_provider
       IN  \/ p \in {"OLLAMA", "LLAMACPP", "BEDROCK"}
           \/ environ[CredentialVariable(p)] \notin {None, Some("")}

StdinRead == \E i \in 1..Len(reads) : reads[i] = "stdin"

\* C13: in process, chat, summarize, translate and analyze-code the model
\* client is invoked (invoke or stream) only after validate_environment has
\* returned successfully for the effective provider in the same run; when
\* validation fails, the run makes no model call and reads no standard input.
C13_ValidateBeforeModel ==
    cmd \in ModelCommands =>
        /\ (calls # << >> \/ stream.state = "open") => (CredentialPresent /\ ~ValidationFailed)
        /\ ValidationFailed =>
              /\ ~CredentialPresent
              /\ calls = << >> /\ stream = IdleStream
              /\ ~StdinRead /\ turns = << >>
              /\ pc = "done"

\* process read its prompt from standard input and called the model for
\* OpenAI with OPENAI_API_KEY set
C13_Witness ==
    /\ cmd = "process" /\ StdinRead /\ calls # << >>
    /\ Get(config).ai_provider = "OPENAI"
    /\ environ["OPENAI_API_KEY"] \notin {None, Some("")}
-----------------------------------------------------------------------------
(* The order of the steps of a command *)

\* the input text has been obtained: a file or standard input was read, or
\* the prompt was taken from the flag
InputObtained == reads # << >> \/ prompt_text # None

\* C14: each command resolves its configuration, then validates the
\* environment, then obtains its input text, then calls the orchestrator: in
\* no command is the input text (flag, file or standard input) read before
\* the configuration has been resolved and the environment validated.
C14_InputAfterValidation ==
    InputObtained => (file_config # None /\ config # None /\ CredentialPresent)
-----------------------------------------------------------------------------
(* Failures of the model client *)

\* how many times the model client's error was raised in the run
ClientErrors == Len(SelectSeq(raised, LAMBDA r : r[1] = "ClientError"))

\* this step raises the client's error
ClientErrorStep == raised' = Append(raised, << "ClientError", pc >>)

C15_States ==
    \* one client call per request at most: one request per non-chat run,
    \* one per spoken line in chat
    /\ cmd # "chat" => Len(calls) <= 1
    /\ cmd = "chat" => Len(calls) <= Len(SpokenLines)
    \* the error is logged once and reaches the caller, which ends the run
    /\ Len(log) = ClientErrors
    /\ ClientErrors <= 1
    /\ ClientErrors = 1 =>
          /\ pc = "done" /\ proc = Exited(1)
          /\ console[Len(console)] = << "Error:", "model client failed" >>
          /\ log[1] \in { << "AI request failed: ", "model client failed" >>,
                         << "Streaming AI request failed: ", "model client failed" >> }
          /\ stream = IdleStream

C15_Steps ==
    \* when the client raises: no second call, no further fragment, and the
    \* fragments delivered before stay delivered
    /\ ClientErrorStep =>
          /\ Len(calls') <= Len(calls) + 1
          /\ response_parts' = response_parts
          /\ console' = Append(console, << "Error:", "model client failed" >>)
          /\ pc' = "done"
    \* nothing is called or yielded after the command has ended
    /\ pc = "done" => UNCHANGED << calls, response_parts, console, log >>

\* C15: process_ai_request and stream_ai_response call the model client at
\* most once per request; when the client raises (at build, at invoke, or at
\* any point of the stream) the error is logged and the same error reaches
\* the caller, nothing is retried, and a stream yields no further fragment
\* after the error while the fragments yielded before it stay delivered.
C15_NoRetry == []C15_States /\ [][C15_Steps]_vars

\* process --stream: the client failed after a fragment had been yielded
C15_Witness ==
    /\ cmd = "process" /\ pc = "done" /\ ClientErrors = 1
    /\ raised[Len(raised)] = << "ClientError", "stream" >>
    /\ response_parts # << >>
    /\ Len(calls) = 1 /\ Len(log) = 1
-----------------------------------------------------------------------------
(* The exchange of a request *)

\* the user text of the k-th request of the run, for process and chat
UserTextOf(k) == IF cmd = "chat" THEN SpokenLines[k] ELSE Get(prompt_text)

\* C16: every request handed to the model client is an Exchange of exactly
\* two messages, (system, system_prompt) then (user, prompt), built fresh for
\* the request: over any sequence of chat turns the exchange of turn n holds
\* only the session's system prompt and the user line of turn n, and no user
\* line or model response of an earlier turn.
C16_FreshExchange ==
    \A k \in 1..Len(calls) :
        /\ Len(calls[k]) = 2
        /\ Len(calls[k][1]) = 2 /\ calls[k][1][1] = "system"
        /\ Len(calls[k][2]) = 2 /\ calls[k][2][1] = "user"
        /\ cmd \in {"process", "chat"} =>
              /\ calls[k][1][2] = << "You are a helpful assistant." >>
              /\ calls[k][2][2] = UserTextOf(k)
        /\ cmd \in {"summarize", "analyze-code"} =>
              SubSeq(calls[k][2][2], 2, Len(calls[k][2][2])) = Get(fs.input)
        /\ cmd = "translate" =>
              SubSeq(calls[k][2][2], 2, Len(calls[k][2][2])) = Get(argv.text)

\* chat: two different lines were spoken and answered, each in its own request
C16_Witness ==
    /\ cmd = "chat" /\ Len(calls) >= 2
    /\ calls[1][2][2] # calls[2][2][2]
    /\ \E i \in 1..Len(console) : console[i] = << "Hel" >>

=============================================================================
